---- MODULE Spec2Model ----
(***************************************************************************)
(* Star-history sampling: api.getRepoStarRecords (stargazer variant) and   *)
(* getStarHistory (contributor-statistics variant).                        *)
(*                                                                         *)
(* Time is counted in ticks, TicksPerDay ticks to a calendar day.  A date  *)
(* string "y-m-d" is represented by the index of its calendar day.  The    *)
(* Link header is a sequence of tokens: the words the pagination regex     *)
(* looks for, single decimal digits, and opaque filler text.               *)
(***************************************************************************)
EXTENDS Integers, Sequences, FiniteSets, TLC

VARIABLES
    stargazers,     \* upstream: number of stargazers of the repository
    pace,           \* upstream: <<t, k>>, t ticks pass after every k stars
    lag,            \* ticks between the latest star and Date.now()
    headerLink,     \* upstream: Link header of the discovery response
    pc,             \* position of the getRepoStarRecords call
    pageCount,      \* let pageCount
    requestPages,   \* const requestPages: number[]
    issued,         \* every request handed to fetch, in order
    patchRes,       \* the discovery response
    arrived,        \* positions of the batch whose response has arrived
    outOfOrder,     \* a response arrived while an earlier request was pending
    resArray,       \* const resArray (Promise.all result, by request position)
    starRecordsMap, \* Map<string, number>, as <<key, value>> in insertion order
    countRes,       \* the repository-summary response
    starRecords,    \* the returned array
    error,          \* the value the call rejects with
    \* getStarHistory
    contributors,   \* upstream: number of entries of /stats/contributors
    link,           \* upstream: initRes.headers.link
    statsPc,        \* position of the getStarHistory call
    pageNum,        \* const pageNum, the digits of its decimal form
    pageIndexes,    \* const pageIndexes
    sampleUrls,     \* the page of each url of sampleUrls, as requested
    statsResArray,  \* const resArray of getStarHistory
    path,           \* the branch of line 68 that ran
    starHistory     \* the returned array

upstream == <<stargazers, pace, lag, headerLink>>

stats == <<contributors, link, statsPc, pageNum, pageIndexes, sampleUrls,
           statsResArray, path, starHistory>>

records == <<upstream, pc, pageCount, requestPages, issued, patchRes, arrived,
             outOfOrder, resArray, starRecordsMap, countRes, starRecords, error>>

vars == <<records, stats>>

-----------------------------------------------------------------------------
(* Program constants *)

PER_PAGE == 30

MAX_REQUEST_AMOUNT == 15

sampleNum == 15

StarsPerPage == 30

HistoryDates == 50

(* Bounds of the model *)

MaxPages == 40

MaxHeaderLen == 4

MaxArrivalPages == 6

MaxStatsPages == 20

TicksPerDay == 4

Paces == {<<0, 1>>, <<1, 1>>, <<TicksPerDay, 1>>, <<1, 25>>}

Lags == {0, TicksPerDay}

ErrStatuses == {403, 500}

-----------------------------------------------------------------------------
(* utils *)

RECURSIVE range(_, _)
range(from, to) == IF from > to THEN <<>> ELSE <<from>> \o range(from + 1, to)

\* the "y-m-d" string of the local calendar day of timestamp t
getDateString(t) == t \div TicksPerDay

\* Math.round of the rational a / b, b > 0
MathRound(a, b) == (2 * a + b) \div (2 * b)

Includes(s, x) == \E i \in 1..Len(s) : s[i] = x

-----------------------------------------------------------------------------
(* Upstream: the stargazers collection, chronological, PER_PAGE to a page *)

StarredAt(rank) == ((rank - 1) \div pace[2]) * pace[1]

Now == (IF stargazers = 0 THEN 0 ELSE StarredAt(stargazers)) + lag

\* ?page=0 (or below) is served as the first page
UpstreamPage(page) ==
    LET p     == IF page < 1 THEN 1 ELSE page
        first == PER_PAGE * (p - 1) + 1
        last  == IF PER_PAGE * p < stargazers THEN PER_PAGE * p ELSE stargazers
    IN  [r \in 1..(IF last < first THEN 0 ELSE last - first + 1) |->
            StarredAt(first + r - 1)]

LastPage(n) == (n + PER_PAGE - 1) \div PER_PAGE

Digit == {"0", "1", "2", "3", "4", "5", "6", "7", "8", "9"}

DigitVal(d) ==
    CASE d = "0" -> 0 [] d = "1" -> 1 [] d = "2" -> 2 [] d = "3" -> 3
      [] d = "4" -> 4 [] d = "5" -> 5 [] d = "6" -> 6 [] d = "7" -> 7
      [] d = "8" -> 8 [] d = "9" -> 9

DigitOf(v) ==
    CASE v = 0 -> "0" [] v = 1 -> "1" [] v = 2 -> "2" [] v = 3 -> "3"
      [] v = 4 -> "4" [] v = 5 -> "5" [] v = 6 -> "6" [] v = 7 -> "7"
      [] v = 8 -> "8" [] v = 9 -> "9"

RECURSIVE Decimal(_)
Decimal(n) == IF n < 10 THEN <<DigitOf(n)>>
              ELSE Decimal(n \div 10) \o <<DigitOf(n % 10)>>

\* the Link header GitHub sends with the first page of a collection of n items
GitHubLink(n) ==
    IF LastPage(n) <= 1 THEN <<>>
    ELSE <<"<url?per_page=30", "&page=", "2", ">; rel=", "next", ", ",
           "<url?per_page=30", "&page=">> \o Decimal(LastPage(n))
         \o <<">; rel=", "last">>

\* every token sequence of at most MaxHeaderLen tokens over the alphabet
HeaderAlphabet == {"next", "last", "&page=", "0", "1", "5", "x"}

RECURSIVE TokenSeqs(_)
TokenSeqs(len) ==
    IF len = 0 THEN {<<>>}
    ELSE LET shorter == TokenSeqs(len - 1)
         IN  shorter \cup {Append(s, t) : s \in {u \in shorter : Len(u) = len - 1},
                                          t \in HeaderAlphabet}

-----------------------------------------------------------------------------
(* getRepoStarRecords: pagination discovery, lines 92-102 *)

\* the maximal run of digits of h starting at position i
RECURSIVE DigitRun(_, _)
DigitRun(h, i) ==
    IF i <= Len(h) /\ h[i] \in Digit THEN <<h[i]>> \o DigitRun(h, i + 1) ELSE <<>>

\* /next.*&page=(\d*).*last/.exec(h): the greedy .* stops at the last "&page="
\* that has a "next" before it and a "last" after it
regResult(h) ==
    LET marks == {b \in 1..Len(h) :
                    /\ h[b] = "&page="
                    /\ \E a \in 1..(b - 1) : h[a] = "next"
                    /\ \E c \in (b + 1)..Len(h) : h[c] = "last"}
    IN  IF marks = {} THEN [matched |-> FALSE, group1 |-> <<>>]
        ELSE LET b == CHOOSE m \in marks : \A o \in marks : o <= m
             IN  [matched |-> TRUE, group1 |-> DigitRun(h, b + 1)]

RECURSIVE Number(_)
Number(digits) ==
    IF digits = <<>> THEN 0
    ELSE 10 * Number(SubSeq(digits, 1, Len(digits) - 1))
         + DigitVal(digits[Len(digits)])

\* faulty variant: the captured text is not tested for being empty
ResolvePageCountUnchecked(h) ==
    LET reg == regResult(h)
    IN  IF reg.matched THEN Number(reg.group1) ELSE 1

ResolvePageCount(h) ==
    LET reg == regResult(h)
    IN  IF reg.matched /\ reg.group1 # <<>> THEN Number(reg.group1) ELSE 1

-----------------------------------------------------------------------------
(* getRepoStarRecords: sample planning, lines 111-121 *)

PlanPages(count) ==
    IF count < MAX_REQUEST_AMOUNT THEN range(1, count)
    ELSE LET computed == [i \in 1..MAX_REQUEST_AMOUNT |->
                             MathRound(i * count, MAX_REQUEST_AMOUNT) - 1]
         IN  IF Includes(computed, 1) THEN computed ELSE <<1>> \o computed

-----------------------------------------------------------------------------
(* Map<string, number> *)

MapHas(m, k) == \E i \in 1..Len(m) : m[i][1] = k

\* faulty variant: an array push instead of a keyed set
MapSetPush(m, k, v) == Append(m, <<k, v>>)

\* Map.prototype.set: an existing key keeps its place and takes the new value
MapSet(m, k, v) ==
    IF MapHas(m, k)
    THEN [i \in 1..Len(m) |-> IF m[i][1] = k THEN <<k, v>> ELSE m[i]]
    ELSE Append(m, <<k, v>>)

-----------------------------------------------------------------------------
(* getRepoStarRecords: aggregation, lines 129-156 *)

RECURSIVE Concat(_, _)
Concat(res, k) ==
    IF k > Len(res) THEN <<>> ELSE res[k].data \o Concat(res, k + 1)

RECURSIVE ExactLoop(_, _, _, _)
ExactLoop(data, i, step, m) ==
    IF i >= Len(data) THEN m
    ELSE ExactLoop(data, i + step, step,
                   MapSet(m, getDateString(data[i + 1]), i + 1))

\* faulty variant: the stride rounded up instead of down
ExactStepCeil(len) == (len + MAX_REQUEST_AMOUNT - 1) \div MAX_REQUEST_AMOUNT

ExactStep(len) ==
    IF len \div MAX_REQUEST_AMOUNT = 0 THEN 1 ELSE len \div MAX_REQUEST_AMOUNT

RECURSIVE SampledLoop(_, _, _, _)
SampledLoop(res, pages, index, m) ==
    IF index > Len(res) THEN m
    ELSE SampledLoop(res, pages, index + 1,
            IF Len(res[index].data) > 0
            THEN MapSet(m, getDateString(res[index].data[1]),
                        PER_PAGE * (pages[index] - 1))
            ELSE m)

Aggregate(pages, res) ==
    IF Len(pages) < MAX_REQUEST_AMOUNT
    THEN LET starRecordsData == Concat(res, 1)
         IN  ExactLoop(starRecordsData, 0, ExactStep(Len(starRecordsData)), <<>>)
    ELSE SampledLoop(res, pages, 1, <<>>)

\* lines 162-172
Entries(m) == [i \in 1..Len(m) |-> [date |-> m[i][1], count |-> m[i][2]]]

-----------------------------------------------------------------------------
(* Requests and responses: <<url, status, data>> records *)

DiscoveryUrl == <<"stargazers">>

PageUrl(page) == <<"stargazers", page>>

CountUrl == <<"repo">>

\* what request() resolves with, lines 46-50
Resolved(url, data) == [url |-> url, status |-> 200, data |-> data]

\* what request() throws on a 4xx/5xx status, lines 40-45 (data: null)
Thrown(url, status) == [url |-> url, status |-> status, data |-> <<>>]

NoResponse == [url |-> <<>>, status |-> 0, data |-> <<>>]

PageRequests(pages) == [k \in 1..Len(pages) |-> PageUrl(pages[k])]

\* getRepoStargazers(repo, token, page) as GitHub answers it
PageResponse(page) == Resolved(PageUrl(page), UpstreamPage(page))

-----------------------------------------------------------------------------
(* Initial states *)

StatsIdle ==
    /\ statsPc = "start"
    /\ pageNum = <<>>
    /\ pageIndexes = <<>>
    /\ sampleUrls = <<>>
    /\ statsResArray = <<>>
    /\ path = "none"
    /\ starHistory = <<>>

NoStats == contributors = 0 /\ link = <<>> /\ StatsIdle

RecordsIdle ==
    /\ pc = "start"
    /\ pageCount = 1
    /\ requestPages = <<>>
    /\ issued = <<>>
    /\ patchRes = NoResponse
    /\ arrived = {}
    /\ outOfOrder = FALSE
    /\ resArray = <<>>
    /\ starRecordsMap = <<>>
    /\ countRes = NoResponse
    /\ starRecords = <<>>
    /\ error = NoResponse

\* a repository whose Link header agrees with its stargazer count
InitGitHub ==
    /\ stargazers \in 0..(PER_PAGE * MaxPages)
    /\ pace \in Paces
    /\ lag \in Lags
    /\ headerLink = GitHubLink(stargazers)

\* any Link header at all
InitAnyHeader ==
    /\ stargazers \in {0, PER_PAGE + 1}
    /\ pace = <<TicksPerDay, 1>>
    /\ lag = TicksPerDay
    /\ headerLink \in TokenSeqs(MaxHeaderLen)

Init == (InitGitHub \/ InitAnyHeader) /\ RecordsIdle /\ NoStats

-----------------------------------------------------------------------------
(* getRepoStarRecords, one action per stretch of code between two awaits *)

\* line 90: the discovery request is issued
CallGetRepoStarRecords ==
    /\ pc = "start"
    /\ issued' = Append(issued, DiscoveryUrl)
    /\ pc' = "awaitDiscovery"
    /\ UNCHANGED <<stats, upstream, pageCount, requestPages, patchRes, arrived,
                   outOfOrder, resArray, starRecordsMap, countRes, starRecords,
                   error>>

\* faulty variant: the status of the discovery response is not looked at
DiscoveryRejectedUnnoticed ==
    /\ pc = "awaitDiscovery"
    /\ \E status \in ErrStatuses : patchRes' = Thrown(DiscoveryUrl, status)
    /\ pageCount' = 1
    /\ requestPages' = <<1>>
    /\ issued' = issued \o <<PageUrl(1)>>
    /\ resArray' = <<NoResponse>>
    /\ pc' = "awaitBatch"
    /\ UNCHANGED <<stats, upstream, arrived, outOfOrder, starRecordsMap, countRes,
                   starRecords, error>>

\* line 90: request() throws on a 4xx/5xx discovery response
DiscoveryRejected ==
    /\ pc = "awaitDiscovery"
    /\ \E status \in ErrStatuses : patchRes' = Thrown(DiscoveryUrl, status)
    /\ error' = patchRes'
    /\ pc' = "failed"
    /\ UNCHANGED <<stats, upstream, pageCount, requestPages, issued, arrived,
                   outOfOrder, resArray, starRecordsMap, countRes, starRecords>>

\* faulty variant: the page count is not part of the test
IsEmptyRepositoryAnyCount(count, data) == Len(data) = 0

\* line 104
IsEmptyRepository(count, data) == count = 1 /\ Len(data) = 0

\* lines 92-109: one page, and it is empty
DiscoveryEmpty ==
    /\ pc = "awaitDiscovery"
    /\ patchRes' = Resolved(DiscoveryUrl, UpstreamPage(1))
    /\ pageCount' = ResolvePageCount(headerLink)
    /\ IsEmptyRepository(pageCount', patchRes'.data)
    /\ error' = patchRes'
    /\ pc' = "failed"
    /\ UNCHANGED <<stats, upstream, requestPages, issued, arrived, outOfOrder,
                   resArray, starRecordsMap, countRes, starRecords>>

\* lines 92-127: the pages are planned and the whole batch is issued
DiscoveryPlanned ==
    /\ pc = "awaitDiscovery"
    /\ patchRes' = Resolved(DiscoveryUrl, UpstreamPage(1))
    /\ pageCount' = ResolvePageCount(headerLink)
    /\ ~IsEmptyRepository(pageCount', patchRes'.data)
    /\ requestPages' = PlanPages(pageCount')
    /\ issued' = issued \o PageRequests(requestPages')
    /\ resArray' = [k \in 1..Len(requestPages') |-> NoResponse]
    /\ pc' = "awaitBatch"
    /\ UNCHANGED <<stats, upstream, arrived, outOfOrder, starRecordsMap, countRes,
                   starRecords, error>>

\* lines 129-158, run once Promise.all has resolved with res
AfterBatch(res) ==
    /\ starRecordsMap' = Aggregate(requestPages, res)
    /\ issued' = Append(issued, CountUrl)
    /\ pc' = "awaitCount"

\* line 123: every request of the batch succeeded
BatchResolved ==
    /\ pc = "awaitBatch"
    /\ arrived' = 1..Len(requestPages)
    /\ resArray' = [k \in 1..Len(requestPages) |-> PageResponse(requestPages[k])]
    /\ AfterBatch(resArray')
    /\ UNCHANGED <<stats, upstream, pageCount, requestPages, patchRes, outOfOrder,
                   countRes, starRecords, error>>

\* line 123: Promise.all rejects with the rejection of one of its requests
BatchRejected ==
    /\ pc = "awaitBatch"
    /\ \E k \in 1..Len(requestPages), status \in ErrStatuses :
          /\ resArray' = [resArray EXCEPT
                             ![k] = Thrown(PageUrl(requestPages[k]), status)]
          /\ arrived' = {k}
          /\ error' = resArray'[k]
    /\ pc' = "failed"
    /\ UNCHANGED <<stats, upstream, pageCount, requestPages, issued, patchRes,
                   outOfOrder, starRecordsMap, countRes, starRecords>>

\* lines 158-174: the "now" anchor is set and the curve returned
CountResolved ==
    /\ pc = "awaitCount"
    /\ countRes' = Resolved(CountUrl, <<stargazers>>)
    /\ starRecordsMap' = MapSet(starRecordsMap, getDateString(Now), countRes'.data[1])
    /\ starRecords' = Entries(starRecordsMap')
    /\ pc' = "done"
    /\ UNCHANGED <<stats, upstream, pageCount, requestPages, issued, patchRes, arrived,
                   outOfOrder, resArray, error>>

\* line 158: request() throws on a 4xx/5xx repository response
CountRejected ==
    /\ pc = "awaitCount"
    /\ \E status \in ErrStatuses : countRes' = Thrown(CountUrl, status)
    /\ error' = countRes'
    /\ pc' = "failed"
    /\ UNCHANGED <<stats, upstream, pageCount, requestPages, issued, patchRes, arrived,
                   outOfOrder, resArray, starRecordsMap, starRecords>>

Next ==
    \/ CallGetRepoStarRecords
    \/ DiscoveryRejected
    \/ DiscoveryEmpty
    \/ DiscoveryPlanned
    \/ BatchResolved
    \/ BatchRejected
    \/ CountResolved
    \/ CountRejected

Spec == Init /\ [][Next]_vars

-----------------------------------------------------------------------------
(* The batch response by response: Promise.all, line 123 *)

\* faulty variant: results kept in the order of arrival
ResultSlotByArrival(k, seen) == Cardinality(seen) + 1

\* Promise.all keeps each result at the position of its promise
ResultSlot(k, seen) == k

InitArrival ==
    /\ stargazers \in {PER_PAGE * p : p \in 0..MaxArrivalPages}
                      \cup {PER_PAGE * MAX_REQUEST_AMOUNT}
    /\ pace = <<TicksPerDay, 1>>
    /\ lag = TicksPerDay
    /\ headerLink = GitHubLink(stargazers)
    /\ RecordsIdle
    /\ NoStats

\* the response to the request at position k arrives with a 2xx status
ResponseArrived ==
    /\ pc = "awaitBatch"
    /\ \E k \in (1..Len(requestPages)) \ arrived :
          /\ resArray' = [resArray EXCEPT ![ResultSlot(k, arrived)] =
                                              PageResponse(requestPages[k])]
          /\ arrived' = arrived \cup {k}
          /\ outOfOrder' = (outOfOrder \/ \E j \in 1..(k - 1) : j \notin arrived)
    /\ UNCHANGED <<stats, upstream, pc, pageCount, requestPages, issued, patchRes,
                   starRecordsMap, countRes, starRecords, error>>

\* the response to the request at position k arrives with a 4xx/5xx status
ResponseRejected ==
    /\ pc = "awaitBatch"
    /\ \E k \in (1..Len(requestPages)) \ arrived, status \in ErrStatuses :
          /\ resArray' = [resArray EXCEPT ![ResultSlot(k, arrived)] =
                             Thrown(PageUrl(requestPages[k]), status)]
          /\ arrived' = arrived \cup {k}
          /\ error' = Thrown(PageUrl(requestPages[k]), status)
    /\ pc' = "failed"
    /\ UNCHANGED <<stats, upstream, pageCount, requestPages, issued, patchRes,
                   outOfOrder, starRecordsMap, countRes, starRecords>>

\* every promise of the batch has resolved: the await returns resArray
BatchJoined ==
    /\ pc = "awaitBatch"
    /\ arrived = 1..Len(requestPages)
    /\ AfterBatch(resArray)
    /\ UNCHANGED <<stats, upstream, pageCount, requestPages, patchRes, arrived,
                   outOfOrder, resArray, countRes, starRecords, error>>

NextArrival ==
    \/ CallGetRepoStarRecords
    \/ DiscoveryRejected
    \/ DiscoveryEmpty
    \/ DiscoveryPlanned
    \/ ResponseArrived
    \/ ResponseRejected
    \/ BatchJoined
    \/ CountResolved
    \/ CountRejected

SpecArrival == InitArrival /\ [][NextArrival]_vars

-----------------------------------------------------------------------------
(* getStarHistory: the contributor-statistics variant *)

\* upstream: the tick of the first active week of entry e; the collection
\* is not chronological
FirstActiveWeek(e) == ((contributors - e) % 3) * 7 * TicksPerDay

\* one entry of /stats/contributors: an idle week, then its first active one
StatsEntry(e) ==
    [weeks |-> << [w |-> FirstActiveWeek(e) - 7 * TicksPerDay, a |-> 0, d |-> 0, c |-> 0],
                  [w |-> FirstActiveWeek(e), a |-> 1, d |-> 0, c |-> 1] >>]

\* ?page=0 (or below) is served as the first page
StatsPage(page) ==
    LET p     == IF page < 1 THEN 1 ELSE page
        first == PER_PAGE * (p - 1) + 1
        last  == IF PER_PAGE * p < contributors THEN PER_PAGE * p ELSE contributors
    IN  [r \in 1..(IF last < first THEN 0 ELSE last - first + 1) |->
            StatsEntry(first + r - 1)]

\* the Link header of the first page of a collection of n entries
StatsLink(n) ==
    IF LastPage(n) <= 1 THEN <<>>
    ELSE <<"<url?", "page=", "2", ">; rel=", "next", ", ", "<url?", "page=">>
         \o Decimal(LastPage(n)) \o <<">; rel=", "last">>

StatsAlphabet == {"next", "last", "page=", "1", "6", "x"}

RECURSIVE StatsTokenSeqs(_)
StatsTokenSeqs(len) ==
    IF len = 0 THEN {<<>>}
    ELSE LET shorter == StatsTokenSeqs(len - 1)
         IN  shorter \cup {Append(s, t) : s \in {u \in shorter : Len(u) = len - 1},
                                          t \in StatsAlphabet}

StatsNow == 2 * 7 * TicksPerDay + lag

\* /next.*?page=(\d*).*?last/.exec(h): the lazy .*? stops at the first
\* "page=" after the first "next"; there must be a "last" after it
statsRegResult(h) ==
    LET nexts == {a \in 1..Len(h) : h[a] = "next"}
        a     == CHOOSE m \in nexts : \A o \in nexts : m <= o
        marks == {b \in 1..Len(h) : b > a /\ h[b] = "page="}
        b     == CHOOSE m \in marks : \A o \in marks : m <= o
    IN  IF nexts = {} \/ marks = {} \/ ~\E c \in (b + 1)..Len(h) : h[c] = "last"
        THEN [matched |-> FALSE, group1 |-> <<>>]
        ELSE [matched |-> TRUE, group1 |-> DigitRun(h, b + 1)]

\* ToNumber of pageNum: of the number 1, or of the digits captured
ToNumber(digits) == Number(digits)

\* line 7: range(n) = [1, 2, ..., n]
statsRange(n) == [i \in 1..n |-> i]

\* Array.prototype.slice(from, to), 0 <= from
Slice(arr, from, to) ==
    LET end == IF to > Len(arr) THEN Len(arr) ELSE to
    IN  IF end <= from THEN <<>> ELSE SubSeq(arr, from + 1, end)

\* lines 46-48
PlanIndexes(n) ==
    IF n <= sampleNum THEN Slice(statsRange(n), 1, n)
    ELSE [i \in 1..sampleNum |-> MathRound(i * n, sampleNum) - 1]

\* line 68
TakesSampledPath(indexes) ==
    Len(indexes) > 0 /\ indexes[Len(indexes)] > sampleNum

\* lines 71-77 and 88-94: the ISO time of the first week with activity
RECURSIVE StarredAtOf(_, _)
StarredAtOf(weeks, j) ==
    IF j > Len(weeks) THEN -1
    ELSE IF weeks[j].a # 0 \/ weeks[j].d # 0 \/ weeks[j].c # 0 THEN weeks[j].w
    ELSE StarredAtOf(weeks, j + 1)

\* toISOString().slice(0, 10)
IsoDate(t) == t \div TicksPerDay

\* lines 69-82
SampledHistory(indexes, res) ==
    [i \in 1..Len(indexes) |->
        [date    |-> IsoDate(StarredAtOf(res[i + 1][1].weeks, 1)),
         starNum |-> StarsPerPage * ((IF indexes[i] = 0 THEN 1 ELSE indexes[i]) - 1)]]

RECURSIVE ConcatData(_, _)
ConcatData(res, k) ==
    IF k > Len(res) THEN <<>>
    ELSE [e \in 1..Len(res[k]) |-> StarredAtOf(res[k][e].weeks, 1)]
         \o ConcatData(res, k + 1)

\* lines 96-104: a stable sort by starred_at
RECURSIVE SortEvents(_, _)
SortEvents(events, values) ==
    IF values = {} THEN <<>>
    ELSE LET least == CHOOSE v \in values : \A o \in values : v <= o
         IN  SelectSeq(events, LAMBDA t : t = least)
             \o SortEvents(events, values \ {least})

\* lines 118-125: the index of the first event on or after date d, 0 if none
RECURSIVE FindFrom(_, _, _)
FindFrom(events, d, i) ==
    IF i > Len(events) THEN 0
    ELSE IF IsoDate(events[i]) >= d THEN i
    ELSE FindFrom(events, d, i + 1)

\* lines 85-131, for a non-empty list of events
ExactHistory(res) ==
    LET unsorted      == ConcatData(res, 1)
        starredEvents == SortEvents(unsorted, {unsorted[i] : i \in 1..Len(unsorted)})
        firstStarredAt == starredEvents[1]
        dates == [i \in 1..HistoryDates |->
                     IsoDate(firstStarredAt)
                     + ((StatsNow - firstStarredAt) * i)
                       \div (TicksPerDay * HistoryDates)]
        found == [i \in 1..HistoryDates |-> FindFrom(starredEvents, dates[i], 1)]
        kept  == SelectSeq([i \in 1..HistoryDates |-> i], LAMBDA i : found[i] # 0)
    IN  [i \in 1..Len(kept) |->
            [date |-> IsoDate(starredEvents[found[kept[i]]]),
             starNum |-> found[kept[i]]]]

InitStats ==
    /\ \/ /\ contributors \in 0..(PER_PAGE * MaxStatsPages)
          /\ link = StatsLink(contributors)
       \/ /\ contributors \in {0, PER_PAGE + 1}
          /\ link \in StatsTokenSeqs(MaxHeaderLen)
    /\ StatsIdle
    /\ stargazers = 0 /\ pace = <<TicksPerDay, 1>> /\ lag \in Lags
    /\ headerLink = <<>>
    /\ RecordsIdle

\* line 31: the first request is issued
CallGetStarHistory ==
    /\ statsPc = "start"
    /\ statsPc' = "awaitInit"
    /\ UNCHANGED <<records, contributors, link, pageNum, pageIndexes,
                   sampleUrls, statsResArray, path, starHistory>>

\* line 31: axios rejects on a non-2xx status
InitRejected ==
    /\ statsPc = "awaitInit"
    /\ statsPc' = "failed"
    /\ UNCHANGED <<records, contributors, link, pageNum, pageIndexes,
                   sampleUrls, statsResArray, path, starHistory>>

\* line 43: exec() returns null and [1] throws
GenerateUrlsThrows ==
    /\ statsPc = "awaitInit"
    /\ link # <<>>
    /\ ~statsRegResult(link).matched
    /\ statsPc' = "failed"
    /\ UNCHANGED <<records, contributors, link, pageNum, pageIndexes,
                   sampleUrls, statsResArray, path, starHistory>>

\* lines 40-63: the pages are planned and all requested
GenerateUrls ==
    /\ statsPc = "awaitInit"
    /\ link = <<>> \/ statsRegResult(link).matched
    /\ pageNum' = IF link = <<>> THEN <<"1">> ELSE statsRegResult(link).group1
    /\ pageIndexes' = PlanIndexes(ToNumber(pageNum'))
    /\ sampleUrls' = pageIndexes'
    /\ statsPc' = "awaitAll"
    /\ UNCHANGED <<records, contributors, link, statsResArray, path, starHistory>>

\* line 63: Promise.all rejects with the rejection of one of the requests
AllRejected ==
    /\ statsPc = "awaitAll"
    /\ sampleUrls # <<>>
    /\ statsPc' = "failed"
    /\ UNCHANGED <<records, contributors, link, pageNum, pageIndexes,
                   sampleUrls, statsResArray, path, starHistory>>

\* lines 63-135: every request succeeded and the history is aggregated
AllResolved ==
    /\ statsPc = "awaitAll"
    /\ statsResArray' = <<StatsPage(1)>>
                        \o [k \in 1..Len(sampleUrls) |-> StatsPage(sampleUrls[k])]
    /\ IF TakesSampledPath(pageIndexes)
       THEN /\ path' = "sampled"
            /\ IF \E k \in 2..Len(statsResArray') : Len(statsResArray'[k]) = 0
               THEN statsPc' = "failed" /\ UNCHANGED starHistory
               ELSE /\ starHistory' = SampledHistory(pageIndexes, statsResArray')
                    /\ statsPc' = "done"
       ELSE /\ path' = "exact"
            /\ IF \A k \in 1..Len(statsResArray') : Len(statsResArray'[k]) = 0
               THEN statsPc' = "failed" /\ UNCHANGED starHistory
               ELSE /\ starHistory' = ExactHistory(statsResArray')
                    /\ statsPc' = "done"
    /\ UNCHANGED <<records, contributors, link, pageNum, pageIndexes, sampleUrls>>

NextStats ==
    \/ CallGetStarHistory
    \/ InitRejected
    \/ GenerateUrlsThrows
    \/ GenerateUrls
    \/ AllRejected
    \/ AllResolved

SpecStats == InitStats /\ [][NextStats]_vars

-----------------------------------------------------------------------------
(* Vocabulary of the properties *)

\* the Link header is the one GitHub sends for this repository
GitHubRepo == headerLink = GitHubLink(stargazers)

\* the planning code (lines 111-127) has run
Planned ==
    \/ pc \in {"awaitBatch", "awaitCount", "done"}
    \/ pc = "failed" /\ error.url # DiscoveryUrl

PagesIssued == {i \in 1..Len(issued) : Len(issued[i]) = 2}

Min(a, b) == IF a < b THEN a ELSE b

StrictlyAscendingByDate(curve) ==
    \A i \in 1..(Len(curve) - 1) : curve[i].date < curve[i + 1].date

AscendingByDate(curve) ==
    \A i \in 1..(Len(curve) - 1) : curve[i].date <= curve[i + 1].date

AscendingByCount(curve) ==
    \A i \in 1..(Len(curve) - 1) : curve[i].count <= curve[i + 1].count

NoDuplicateDates(curve) ==
    \A i, j \in 1..Len(curve) : i # j => curve[i].date # curve[j].date

\* the ranks the exact path samples among n stars: 1, 1 + s, 1 + 2s, ...
ExactRanks(n) ==
    LET s == IF n \div MAX_REQUEST_AMOUNT = 0 THEN 1 ELSE n \div MAX_REQUEST_AMOUNT
    IN  {r \in 1..n : (r - 1) % s = 0}

-----------------------------------------------------------------------------
(* C1: for every page count >= 1 the planned page indices contain page 1   *)
(* and are at most 15, so the batch holds at most 15 page requests.        *)
C1_PlanWithinBudget ==
    (Planned /\ pageCount >= 1) =>
        /\ Includes(requestPages, 1)
        /\ Len(requestPages) <= MAX_REQUEST_AMOUNT
        /\ Cardinality(PagesIssued) <= MAX_REQUEST_AMOUNT

(* C2, as claimed: on the sampled path (page count >= 15) the returned    *)
(* curve has 15 or 16 points, strictly ascending by date, the last one     *)
(* carrying the live stargazers_count.                                     *)
C2_SampledCurveAsClaimed ==
    (pc = "done" /\ GitHubRepo /\ pageCount >= MAX_REQUEST_AMOUNT) =>
        /\ Len(starRecords) \in {MAX_REQUEST_AMOUNT, MAX_REQUEST_AMOUNT + 1}
        /\ StrictlyAscendingByDate(starRecords)
        /\ starRecords[Len(starRecords)].count = countRes.data[1]

(* C2, amended: on the sampled path the returned curve has one point per   *)
(* distinct calendar date among the first entries of the fetched pages and *)
(* today, the date of the "now" anchor: at least 1 and at most 17 points   *)
(* (up to 16 fetched pages plus the anchor).  It is strictly ascending by  *)
(* date and its last point carries the live stargazers_count.              *)
C2_SampledCurve ==
    (pc = "done" /\ GitHubRepo /\ pageCount >= MAX_REQUEST_AMOUNT) =>
        /\ Len(starRecords) =
              Cardinality({getDateString(UpstreamPage(requestPages[k])[1]) :
                              k \in 1..Len(requestPages)}
                          \cup {getDateString(Now)})
        /\ Len(starRecords) >= 1
        /\ Len(starRecords) <= MAX_REQUEST_AMOUNT + 2
        /\ StrictlyAscendingByDate(starRecords)
        /\ starRecords[Len(starRecords)].count = countRes.data[1]

\* a sampled-path call that returned 17 points
C2_Witness ==
    /\ pc = "done" /\ GitHubRepo /\ pageCount >= MAX_REQUEST_AMOUNT
    /\ Len(starRecords) = MAX_REQUEST_AMOUNT + 2

(* C3, as claimed: on the exact path (page count < 15, at least one        *)
(* stargazer) the curve has min(15, stargazers) points, is sorted          *)
(* ascending by date and ends with the true stargazer count.               *)
C3_ExactCurveAsClaimed ==
    (pc = "done" /\ GitHubRepo /\ pageCount < MAX_REQUEST_AMOUNT
                 /\ stargazers >= 1) =>
        /\ Len(starRecords) = Min(MAX_REQUEST_AMOUNT, stargazers)
        /\ AscendingByDate(starRecords)
        /\ starRecords[Len(starRecords)].count = stargazers

(* C3, amended: on the exact path the curve has one point per distinct     *)
(* calendar date among the stars of rank 1, 1 + s, 1 + 2s, ...             *)
(* (s = floor(n / 15), or 1 when that is 0) and today, the date of the     *)
(* "now" anchor: at most min(29, n) + 1 points.  It is strictly ascending  *)
(* by date and ends with the true stargazer count.                         *)
C3_ExactCurve ==
    (pc = "done" /\ GitHubRepo /\ pageCount < MAX_REQUEST_AMOUNT
                 /\ stargazers >= 1) =>
        /\ Len(starRecords) =
              Cardinality({getDateString(StarredAt(r)) : r \in ExactRanks(stargazers)}
                          \cup {getDateString(Now)})
        /\ Len(starRecords) <= Min(2 * MAX_REQUEST_AMOUNT - 1, stargazers) + 1
        /\ StrictlyAscendingByDate(starRecords)
        /\ starRecords[Len(starRecords)].count = stargazers

\* an exact-path call that returned more than 15 points
C3_Witness ==
    /\ pc = "done" /\ GitHubRepo /\ pageCount < MAX_REQUEST_AMOUNT
    /\ stargazers >= 1
    /\ Len(starRecords) > MAX_REQUEST_AMOUNT

(* C4: every returned curve has no two points of the same date, only       *)
(* non-negative counts, and is non-decreasing in date and in count.        *)
C4_GrowthCurve ==
    pc = "done" =>
        /\ NoDuplicateDates(starRecords)
        /\ \A i \in 1..Len(starRecords) : starRecords[i].count >= 0
        /\ AscendingByDate(starRecords)
        /\ AscendingByCount(starRecords)

(* C5: a 4xx/5xx discovery response fails the call with that response and  *)
(* no page or repository request is issued; a 4xx/5xx response in the      *)
(* batch or to the repository request fails the call with that response    *)
(* and no curve is returned; no request is issued twice.                   *)
C5_FailedStageStops ==
    /\ patchRes.status >= 400 =>
          pc = "failed" /\ error = patchRes /\ issued = <<DiscoveryUrl>>
    /\ \A k \in 1..Len(resArray) :
          resArray[k].status >= 400 =>
             /\ pc = "failed" /\ error = resArray[k]
             /\ \A i \in 1..Len(issued) : issued[i] # CountUrl
    /\ countRes.status >= 400 => pc = "failed" /\ error = countRes
    /\ pc = "failed" => starRecords = <<>> /\ error.status # 0
    /\ \A i, j \in 1..Len(issued) : i # j => issued[i] # issued[j]

\* a call that failed on a 5xx response of its page batch
C5_Witness ==
    /\ pc = "failed"
    /\ \E k \in 1..Len(resArray) : resArray[k].status = 500 /\ error = resArray[k]

\* the last "&page=" between a "next" and a "last" is followed by a digit
WellFormedLink(h) ==
    \E b \in 1..(Len(h) - 1) :
       /\ h[b] = "&page=" /\ h[b + 1] \in Digit
       /\ \E a \in 1..(b - 1) : h[a] = "next"
       /\ \E c \in (b + 1)..Len(h) : h[c] = "last"
       /\ \A o \in (b + 1)..Len(h) :
             h[o] = "&page=" => \A c \in (o + 1)..Len(h) : h[c] # "last"

(* C6: when the Link header of the discovery response is absent or does    *)
(* not match next...&page=<N>...last (a match with an empty page number    *)
(* included), the page count is 1 and the call does not fail on it.        *)
C6_MalformedLink ==
    (patchRes.status = 200 /\ ~WellFormedLink(headerLink)) =>
        /\ pageCount = 1
        /\ (pc = "failed" /\ error = patchRes) => Len(patchRes.data) = 0

\* a call that returned a curve although its Link header matched with an
\* empty page number
C6_Witness ==
    /\ pc = "done"
    /\ \E b \in 1..(Len(headerLink) - 1) :
          /\ headerLink[b] = "&page=" /\ headerLink[b + 1] = "last"
          /\ \E a \in 1..(b - 1) : headerLink[a] = "next"

(* C7: the call fails on the discovery response, before any other request  *)
(* and without a curve, whenever the page count is 1 and the first page is *)
(* empty, and never when the first page is non-empty or the page count is  *)
(* above 1.                                                                *)
C7_EmptyRepository ==
    patchRes.status = 200 =>
        /\ (pageCount = 1 /\ Len(patchRes.data) = 0) =>
              /\ pc = "failed" /\ error = patchRes
              /\ issued = <<DiscoveryUrl>> /\ starRecords = <<>>
        /\ (pageCount > 1 \/ Len(patchRes.data) > 0) => error # patchRes

\* a call that failed on an empty first page
C7_Witness ==
    /\ pc = "failed" /\ patchRes.status = 200 /\ error = patchRes
    /\ headerLink = <<>>

\* round(i * n / 15) - 1 for i = 1..15, 0 and below replaced by 1, page 1 added
ClampedPlan(n) ==
    LET computed == [i \in 1..MAX_REQUEST_AMOUNT |->
                        LET v == MathRound(i * n, MAX_REQUEST_AMOUNT) - 1
                        IN  IF v < 1 THEN 1 ELSE v]
    IN  IF Includes(computed, 1) THEN computed ELSE <<1>> \o computed

(* C8: for 1..14 pages the plan is 1..totalPages and the exact path is     *)
(* taken; for 15 pages or more it is round(i * totalPages / 15) - 1,       *)
(* i = 1..15, with 0 and below replaced by 1, plus page 1 if missing;      *)
(* every requested page index lies in 1..totalPages, in ascending order.   *)
C8_PlanFormula ==
    (Planned /\ pageCount >= 1) =>
        /\ pageCount < MAX_REQUEST_AMOUNT =>
              /\ requestPages = [i \in 1..pageCount |-> i]
              /\ Len(requestPages) < MAX_REQUEST_AMOUNT
        /\ pageCount >= MAX_REQUEST_AMOUNT => requestPages = ClampedPlan(pageCount)
        /\ \A i \in PagesIssued : issued[i][2] \in 1..pageCount
        /\ \A k \in 1..(Len(requestPages) - 1) :
              requestPages[k] <= requestPages[k + 1]

\* the curve aggregated from each page's own response
ReferenceCurve ==
    Entries(MapSet(Aggregate(requestPages,
                             [k \in 1..Len(requestPages) |->
                                 PageResponse(requestPages[k])]),
                   getDateString(Now), stargazers))

(* C9: the page requests are all issued before any response is consumed,   *)
(* aggregation starts only after all of them succeeded, each response is   *)
(* attributed to the page that requested it, and the returned curve is the *)
(* same whatever the order of arrival.                                     *)
C9_ArrivalOrder ==
    /\ arrived # {} =>
          \A k \in 1..Len(requestPages) :
             \E i \in 1..Len(issued) : issued[i] = PageUrl(requestPages[k])
    /\ pc \in {"awaitCount", "done"} =>
          /\ arrived = 1..Len(requestPages)
          /\ \A k \in 1..Len(requestPages) : resArray[k].status = 200
    /\ \A k \in arrived : resArray[k].url = PageUrl(requestPages[k])
    /\ pc = "done" => starRecords = ReferenceCurve

\* a curve returned after responses arrived out of request order
C9_Witness == pc = "done" /\ outOfOrder /\ Len(requestPages) >= 2

\* the pages getStarHistory fetched, page 0 being page 1
StatsPagesFetched ==
    {1} \cup {IF sampleUrls[k] < 1 THEN 1 ELSE sampleUrls[k] : k \in 1..Len(sampleUrls)}

(* C10: in getStarHistory the sampled aggregation runs exactly when the     *)
(* pages were planned by sampling (pageNum > 15), and the exact one exactly *)
(* when every page 1..pageNum was fetched (pageNum <= 15).                  *)
C10_PathConsistency ==
    (path # "none" /\ ToNumber(pageNum) >= 1) =>
        /\ path = "sampled" <=> ToNumber(pageNum) > sampleNum
        /\ path = "exact" <=> StatsPagesFetched = 1..ToNumber(pageNum)

====
